---- MODULE Spec2Model ----
(***************************************************************************)
(* Model of upsetplot/alt_text.py: the grammar builder (generate_grammar   *)
(* and its per-intersection derivation helpers) and the text fetcher       *)
(* (fetch_alt_text).                                                       *)
(*                                                                         *)
(* Representation                                                          *)
(*   - a Python str is a sequence of one-character strings, so that        *)
(*     str.replace and str.split act on characters as they do in Python;   *)
(*   - a Python dict is a sequence of <<key, value>> pairs with unique     *)
(*     keys, in insertion order (Dict* operators); the grammar itself,     *)
(*     whose keys are literal field names, is a function on strings;       *)
(*   - an optional value (None or v) is <<>> or <<v>>;                     *)
(*   - a table argument is [none |-> TRUE] for None, else a record with    *)
(*     none = FALSE and the pandas object's index and values;              *)
(*   - Python floats are exact rationals <<numerator, denominator>> in     *)
(*     lowest terms (the IEEE rounding of the division and the products    *)
(*     is not modelled);                                                   *)
(*   - a call either returns a value or raises:                            *)
(*     [kind |-> "return", value |-> v] or [kind |-> "raise", exc, msg].   *)
(***************************************************************************)
EXTENDS Integers, Sequences, FiniteSets, TLC

VARIABLES call, args, ret, engine

vars == <<call, args, ret, engine>>

----------------------------------------------------------------------------
(* Bounds of the model.                                                    *)

\* most sets in a totals table
MaxSets == 2

\* most rows in an intersections table
MaxRows == 2

\* largest min_degree / max_degree argument
MaxDegreeArg == 2

----------------------------------------------------------------------------
(* Generic values.                                                         *)

None == <<>>

Some(v) == <<v>>

Return(v) == [kind |-> "return", value |-> v]

Raise(e, m) == [kind |-> "raise", exc |-> e, msg |-> m]

NoneTable == [none |-> TRUE]

Range(s) == {s[i] : i \in 1..Len(s)}

\* Python: d[k] = v on a dict whose keys are literal strings
Put(d, k, v) == (k :> v) @@ d

\* insertion-ordered dict as a sequence of <<key, value>> pairs
DictKeys(d) == [i \in 1..Len(d) |-> d[i][1]]

DictHas(d, k) == \E i \in 1..Len(d) : d[i][1] = k

DictGet(d, k) == d[CHOOSE i \in 1..Len(d) : d[i][1] = k][2]

\* d[k] = v: an existing key keeps its position and takes the new value
DictSet(d, k, v) ==
    IF DictHas(d, k)
    THEN [i \in 1..Len(d) |-> IF d[i][1] = k THEN <<k, v>> ELSE d[i]]
    ELSE Append(d, <<k, v>>)

----------------------------------------------------------------------------
(* Character strings.                                                      *)

Str_Subset == <<"S", "u", "b", "s", "e", "t">>

Str_Delim == <<"~", "_", "~">>

Str_Unincluded == <<"U", "n", "i", "n", "c", "l", "u", "d", "e", "d">>

Str_Just == <<"J", "u", "s", "t", " ">>

Str_And == <<"a", "n", "d", " ">>

Str_Comma == <<",", " ">>

StartsWith(s, p) == Len(s) >= Len(p) /\ SubSeq(s, 1, Len(p)) = p

\* str.replace(old, new): every non-overlapping occurrence, left to right
RECURSIVE StrReplace(_, _, _)
StrReplace(s, old, new) ==
    IF Len(s) < Len(old) THEN s
    ELSE IF StartsWith(s, old) THEN new \o StrReplace(SubSeq(s, Len(old) + 1, Len(s)), old, new)
    ELSE <<Head(s)>> \o StrReplace(Tail(s), old, new)

\* str.split(sep): cur is the piece being read
RECURSIVE StrSplitFrom(_, _, _)
StrSplitFrom(s, sep, cur) ==
    IF Len(s) < Len(sep) THEN <<cur \o s>>
    ELSE IF StartsWith(s, sep) THEN <<cur>> \o StrSplitFrom(SubSeq(s, Len(sep) + 1, Len(s)), sep, <<>>)
    ELSE StrSplitFrom(Tail(s), sep, cur \o <<Head(s)>>)

StrSplit(s, sep) == StrSplitFrom(s, sep, <<>>)

----------------------------------------------------------------------------
(* Exact rationals <<n, d>>, d > 0, in lowest terms.                       *)

Abs(x) == IF x < 0 THEN -x ELSE x

RECURSIVE Gcd(_, _)
Gcd(a, b) == IF b = 0 THEN a ELSE Gcd(b, a % b)

Rat(n, d) == LET g == Gcd(Abs(n), d) IN <<n \div g, d \div g>>

RatInt(n) == <<n, 1>>

RatMul(x, y) == Rat(x[1] * y[1], x[2] * y[2])

RatSub(x, y) == Rat(x[1] * y[2] - y[1] * x[2], x[2] * y[2])

RatOneMinus(x) == RatSub(RatInt(1), x)

----------------------------------------------------------------------------
(* pandas objects.                                                         *)

\* Series[label]
SeriesGet(series, label) ==
    series.values[CHOOSE i \in 1..Len(series.index) : series.index[i] = label]

RECURSIVE SeqSum(_)
SeqSum(s) == IF s = <<>> THEN 0 ELSE Head(s) + SeqSum(Tail(s))

\* Series.sum()
SeriesSum(series) == SeqSum(series.values)

----------------------------------------------------------------------------
(* Per-intersection derivation helpers.                                    *)

get_all_sets_info(totals) ==
    [i \in 1..Len(totals.index) |-> [name |-> totals.index[i], size |-> totals.values[i]]]

\* first loop of calculate_deviation: contained_product
RECURSIVE contained_product(_, _, _)
contained_product(contained_sets, sets, total_items) ==
    IF contained_sets = <<>> THEN RatInt(1)
    ELSE LET n == Len(contained_sets)
         IN  RatMul(contained_product(SubSeq(contained_sets, 1, n - 1), sets, total_items),
                    Rat(SeriesGet(sets, contained_sets[n]), total_items))

\* second loop of calculate_deviation: non_contained_product
RECURSIVE non_contained_product(_, _, _, _)
non_contained_product(v_sets, contained_sets, sets, total_items) ==
    IF v_sets = <<>> THEN RatInt(1)
    ELSE LET v == v_sets[Len(v_sets)]
             rest == non_contained_product(SubSeq(v_sets, 1, Len(v_sets) - 1), contained_sets, sets, total_items)
         IN  IF v \notin Range(contained_sets)
             THEN RatMul(rest, RatOneMinus(Rat(SeriesGet(sets, v), total_items)))
             ELSE rest

\* mutant: the second product runs over every visible set
calculate_deviation_all_sets(contained_sets, v_sets, sets, intersection_size, total_items) ==
    LET dev == RatSub(Rat(intersection_size, total_items),
                      RatMul(contained_product(contained_sets, sets, total_items),
                             non_contained_product(v_sets, <<>>, sets, total_items)))
    IN  RatMul(dev, RatInt(100))

calculate_deviation(contained_sets, v_sets, sets, intersection_size, total_items) ==
    LET dev == RatSub(Rat(intersection_size, total_items),
                      RatMul(contained_product(contained_sets, sets, total_items),
                             non_contained_product(v_sets, contained_sets, sets, total_items)))
    IN  RatMul(dev, RatInt(100))

\* the loop of get_set_membership_from_index over the first n names
RECURSIVE set_membership_upto(_, _, _)
set_membership_upto(intersections, idx, n) ==
    IF n = 0 THEN <<>>
    ELSE DictSet(set_membership_upto(intersections, idx, n - 1),
                 intersections.names[n],
                 IF intersections.index[idx][n] THEN "Yes" ELSE "No")

get_set_membership_from_index(intersections, idx) ==
    set_membership_upto(intersections, idx, Len(intersections.names))

\* list(set_membership.values()).count("Yes")
get_degree_from_set_membership(set_membership) ==
    Cardinality({i \in 1..Len(set_membership) : set_membership[i][2] = "Yes"})

\* the loop of get_element_name_from_id over the first n elements
RECURSIVE element_name_upto(_, _)
element_name_upto(elements, n) ==
    IF n = 0 THEN <<>>
    ELSE element_name_upto(elements, n - 1)
         \o (IF n = Len(elements) THEN Str_And \o elements[n] ELSE elements[n] \o Str_Comma)

get_element_name_from_id(id) ==
    LET stripped_id == StrReplace(id, Str_Subset \o Str_Delim, <<>>)
        elements == StrSplit(stripped_id, Str_Delim)
    IN  IF Len(elements) = 1
        THEN (IF elements[1] = Str_Unincluded THEN Str_Unincluded ELSE Str_Just \o elements[1])
        ELSE element_name_upto(elements, Len(elements))

\* the loop of generate_intersection_id over the first n names
RECURSIVE intersection_id_upto(_, _, _)
intersection_id_upto(names, set_membership, n) ==
    IF n = 0 THEN Str_Subset
    ELSE intersection_id_upto(names, set_membership, n - 1)
         \o (IF DictGet(set_membership, names[n]) = "Yes" THEN Str_Delim \o names[n] ELSE <<>>)

generate_intersection_id(intersections, idx) ==
    LET names == intersections.names
        set_membership == get_set_membership_from_index(intersections, idx)
        intersection_id == intersection_id_upto(names, set_membership, Len(names))
    IN  IF intersection_id = Str_Subset
        THEN intersection_id \o Str_Delim \o Str_Unincluded
        ELSE intersection_id

\* [name for name, membership in set_membership.items() if membership == "Yes"]
RECURSIVE contained_sets_of(_)
contained_sets_of(set_membership) ==
    IF set_membership = <<>> THEN <<>>
    ELSE LET n == Len(set_membership)
             rest == contained_sets_of(SubSeq(set_membership, 1, n - 1))
         IN  IF set_membership[n][2] = "Yes" THEN Append(rest, set_membership[n][1]) ELSE rest

\* the record of row i, before the accessible / full branch
intersection_record(intersections, totals, i) ==
    LET id == generate_intersection_id(intersections, i)
        set_membership == get_set_membership_from_index(intersections, i)
        contained_sets == contained_sets_of(set_membership)
        intersection_size == intersections.values[i]
        deviation == calculate_deviation(contained_sets, totals.index, totals, intersection_size, SeriesSum(totals))
    IN  [id |-> id,
         elementName |-> get_element_name_from_id(id),
         setMembership |-> set_membership,
         size |-> intersection_size,
         type |-> "Subset",
         degree |-> get_degree_from_set_membership(set_membership),
         attributes |-> <<>>,
         deviation |-> deviation]

\* mutant: the accessible variant also records the output order
process_row_ordered(processedData, intersections, totals, accessible, i) ==
    LET record == intersection_record(intersections, totals, i)
    IN  IF accessible
        THEN [values |-> DictSet(processedData.values, record.id, Put(record, "deviation", record.deviation)),
              order |-> Append(processedData.order, record.id)]
        ELSE [values |-> DictSet(processedData.values, record.id, Put(record, "items", <<>>)),
              order |-> Append(processedData.order, record.id)]

\* one iteration of the loop of generate_processed_data, for row i
process_row(processedData, intersections, totals, accessible, i) ==
    LET record == intersection_record(intersections, totals, i)
    IN  IF accessible
        THEN [values |-> DictSet(processedData.values, record.id, Put(record, "deviation", record.deviation)),
              order |-> processedData.order]
        ELSE [values |-> DictSet(processedData.values, record.id, Put(record, "items", <<>>)),
              order |-> Append(processedData.order, record.id)]

\* the loop of generate_processed_data over rows 1..n
RECURSIVE process_rows(_, _, _, _)
process_rows(intersections, totals, accessible, n) ==
    IF n = 0 THEN [values |-> <<>>, order |-> <<>>]
    ELSE process_row(process_rows(intersections, totals, accessible, n - 1), intersections, totals, accessible, n)

\* df is not read; len(None) raises TypeError, and the first iteration reads
\* totals.index, which raises AttributeError on None
generate_processed_data(df, intersections, totals, accessible) ==
    IF intersections.none THEN Raise("TypeError", "len")
    ELSE IF Len(intersections.index) > 0 /\ totals.none THEN Raise("AttributeError", "index")
    ELSE Return(process_rows(intersections, totals, accessible, Len(intersections.index)))

----------------------------------------------------------------------------
(* generate_grammar.                                                       *)

\* the default grammar literal; it has no "sortByOrder" field
default_grammar ==
    [version |-> "0.1.0",
     plotInformation |-> [title |-> "", caption |-> "", description |-> "", sets |-> "", items |-> ""],
     horizontal |-> FALSE,
     firstAggregateBy |-> "None",
     firstOverlapDegree |-> 2,
     secondAggregateBy |-> "None",
     secondOverlapDegree |-> 2,
     sortVisibleBy |-> "Alphabetical",
     sortBy |-> "Size",
     filters |-> [maxVisible |-> 6, minVisible |-> 0, hideEmpty |-> TRUE, hideNoSet |-> FALSE],
     visibleSets |-> <<>>,
     visibleAttributes |-> <<>>,
     bookmarks |-> <<>>,
     collapsed |-> <<>>,
     plots |-> [scatterplots |-> <<>>, histograms |-> <<>>, wordClouds |-> <<>>],
     allSets |-> <<>>]

\* meta_data.get(key, "")
meta_get(meta_data, key) == IF key \in DOMAIN meta_data THEN meta_data[key] ELSE ""

\* if meta_data is not None: copy the five plotInformation fields
apply_meta_data(grammar, meta_data) ==
    IF meta_data # None
    THEN [grammar EXCEPT !.plotInformation =
             [title |-> meta_get(meta_data[1], "title"),
              caption |-> meta_get(meta_data[1], "caption"),
              description |-> meta_get(meta_data[1], "description"),
              sets |-> meta_get(meta_data[1], "sets"),
              items |-> meta_get(meta_data[1], "items")]]
    ELSE grammar

\* grammar["sortBy"] = by; grammar["sortByOrder"] = order
set_sort(grammar, by, order) == Put(Put(grammar, "sortBy", by), "sortByOrder", order)

\* mutant: the two cardinality directions are exchanged
apply_sort_by_swapped(grammar, sort_by) ==
    LET g1 == IF sort_by = Some("degree") THEN set_sort(grammar, "Degree", "Descending") ELSE grammar
        g2 == IF sort_by = Some("-degree") THEN set_sort(g1, "Degree", "Ascending") ELSE g1
        g3 == IF sort_by = Some("cardinality") THEN set_sort(g2, "Size", "Descending") ELSE g2
        g4 == IF sort_by = Some("-cardinality") THEN set_sort(g3, "Size", "Ascending") ELSE g3
    IN  IF sort_by = Some("input") \/ sort_by = Some("-input") THEN set_sort(g4, "Size", "Descending") ELSE g4

\* the five consecutive ifs on sort_by
apply_sort_by(grammar, sort_by) ==
    LET g1 == IF sort_by = Some("degree") THEN set_sort(grammar, "Degree", "Descending") ELSE grammar
        g2 == IF sort_by = Some("-degree") THEN set_sort(g1, "Degree", "Ascending") ELSE g1
        g3 == IF sort_by = Some("cardinality") THEN set_sort(g2, "Size", "Ascending") ELSE g2
        g4 == IF sort_by = Some("-cardinality") THEN set_sort(g3, "Size", "Descending") ELSE g3
    IN  IF sort_by = Some("input") \/ sort_by = Some("-input") THEN set_sort(g4, "Size", "Descending") ELSE g4

\* the three consecutive ifs on sort_categories_by
apply_sort_categories_by(grammar, sort_categories_by) ==
    LET g1 == IF sort_categories_by = Some("cardinality") THEN Put(grammar, "sortVisibleBy", "Descending") ELSE grammar
        g2 == IF sort_categories_by = Some("-cardinality") THEN Put(g1, "sortVisibleBy", "Ascending") ELSE g1
    IN  IF sort_categories_by = Some("input") \/ sort_categories_by = Some("-input") THEN Put(g2, "sortVisibleBy", "Alphabetical") ELSE g2

\* mutant: the no-set intersection is hidden from min_degree 0 on
apply_filters_ge(grammar, include_empty_subsets, min_degree, max_degree) ==
    [grammar EXCEPT !.filters =
        [hideEmpty |-> ~include_empty_subsets,
         hideNoSet |-> IF min_degree # None THEN min_degree[1] >= 0 ELSE FALSE,
         minVisible |-> IF min_degree # None THEN min_degree[1] ELSE 0,
         maxVisible |-> IF max_degree # None THEN max_degree[1] ELSE 6]]

\* mutant: the degree bounds default by truthiness (min_degree or 0, max_degree or 6)
apply_filters_or(grammar, include_empty_subsets, min_degree, max_degree) ==
    [grammar EXCEPT !.filters =
        [hideEmpty |-> ~include_empty_subsets,
         hideNoSet |-> IF min_degree # None THEN min_degree[1] > 0 ELSE FALSE,
         minVisible |-> IF min_degree # None /\ min_degree # Some(0) THEN min_degree[1] ELSE 0,
         maxVisible |-> IF max_degree # None /\ max_degree # Some(0) THEN max_degree[1] ELSE 6]]

\* the four assignments to grammar["filters"]
apply_filters(grammar, include_empty_subsets, min_degree, max_degree) ==
    [grammar EXCEPT !.filters =
        [hideEmpty |-> ~include_empty_subsets,
         hideNoSet |-> IF min_degree # None THEN min_degree[1] > 0 ELSE FALSE,
         minVisible |-> IF min_degree # None THEN min_degree[1] ELSE 0,
         maxVisible |-> IF max_degree # None THEN max_degree[1] ELSE 6]]

\* mutant: a missing totals table is read as an empty one
fill_sets_lenient(grammar, totals) ==
    IF totals.none
    THEN Return(Put([grammar EXCEPT !.visibleSets = <<>>, !.allSets = <<>>], "bookmarkedIntersections", <<>>))
    ELSE Return(Put([grammar EXCEPT !.visibleSets = totals.index, !.allSets = get_all_sets_info(totals)], "bookmarkedIntersections", <<>>))

\* visibleSets, allSets, bookmarkedIntersections; None.index raises AttributeError
fill_sets(grammar, totals) ==
    IF totals.none
    THEN Raise("AttributeError", "index")
    ELSE Return(Put([grammar EXCEPT !.visibleSets = totals.index, !.allSets = get_all_sets_info(totals)], "bookmarkedIntersections", <<>>))

\* if include_data: processedData, rawData, accessibleProcessedData
attach_data(grammar, df, intersections, totals, include_data) ==
    IF ~include_data
    THEN Return(grammar)
    ELSE LET full == generate_processed_data(df, intersections, totals, FALSE)
             accessible == generate_processed_data(df, intersections, totals, TRUE)
         IN  IF full.kind = "raise" THEN full
             ELSE IF accessible.kind = "raise" THEN accessible
             ELSE Return(Put(Put(Put(grammar, "processedData", full.value), "rawData", <<>>), "accessibleProcessedData", accessible.value))

\* a is the record of the call's arguments
generate_grammar(a) ==
    LET g1 == [default_grammar EXCEPT !.horizontal = a.horizontal]
        g2 == apply_meta_data(g1, a.meta_data)
        g3 == apply_sort_by(g2, a.sort_by)
        g4 == apply_sort_categories_by(g3, a.sort_categories_by)
        g5 == apply_filters(g4, a.include_empty_subsets, a.min_degree, a.max_degree)
        g6 == fill_sets(g5, a.totals)
    IN  IF g6.kind = "raise" THEN g6
        ELSE attach_data(g6.value, a.df, a.intersections, a.totals, a.include_data)

----------------------------------------------------------------------------
(* fetch_alt_text.  The alttxt engine (Parser, TokenMap, AltTxtGen) is an  *)
(* external library: each of its steps either succeeds or raises, and the  *)
(* Parser rejects a grammar that lacks its required fields.               *)

ConstructionSteps == <<"Parser", "TokenMap", "AltTxtGen">>

\* the engine steps run, as <<step, outcome>>, when construction step fails_at
\* raises (0: none raises)
construction(fails_at) ==
    [i \in 1..(IF fails_at = 0 THEN Len(ConstructionSteps) ELSE fails_at) |->
        <<ConstructionSteps[i], IF i = fails_at THEN "raise" ELSE "ok">>]

\* what the Parser can do with a grammar: it cannot accept one without a version
parser_accepts(grammar) == "version" \in DOMAIN grammar

\* mutant: a failed construction is not re-raised, and the text is still produced
fetch_alt_text_fallthrough(grammar, fails_at, text_raises) ==
    IF text_raises
    THEN [ret |-> Raise("Exception", <<"Failed to generate alt text", "text">>),
          engine |-> Append(construction(fails_at), <<"text", "raise">>)]
    ELSE [ret |-> Return("alt text"), engine |-> Append(construction(fails_at), <<"text", "ok">>)]

\* fails_at: the construction step that raises (0: none); text_raises: gen.text raises
fetch_alt_text(grammar, fails_at, text_raises) ==
    IF fails_at # 0
    THEN [ret |-> Raise("Exception", <<"Failed to create alt text generator", ConstructionSteps[fails_at]>>),
          engine |-> construction(fails_at)]
    ELSE IF text_raises
    THEN [ret |-> Raise("Exception", <<"Failed to generate alt text", "text">>),
          engine |-> Append(construction(0), <<"text", "raise">>)]
    ELSE [ret |-> Return("alt text"), engine |-> Append(construction(0), <<"text", "ok">>)]

----------------------------------------------------------------------------
(* Inputs.                                                                 *)

Opt(S) == {None} \cup {Some(v) : v \in S}

InjectiveSeqs(S, n) == {q \in [1..n -> S] : \A i, j \in 1..n : i # j => q[i] # q[j]}

\* set names: two plain ones, and three that meet the identifier's own words
NamePool == {<<"A">>, <<"B">>, Str_Subset, Str_Unincluded, <<"A">> \o Str_Delim \o <<"B">>}

PlainNames == <<<<"A">>, <<"B">>, <<"C">>, <<"D">>>>

TotalValues == {1, 50}

SizeValues == {1, 25}

SortByValues == Opt({"degree", "-degree", "cardinality", "-cardinality", "input", "-input", "size"})

SortCategoriesByValues == Opt({"cardinality", "-cardinality", "input", "-input", "degree"})

DegreeValues == Opt(0..MaxDegreeArg)

MetaDataValues == {None, Some([title |-> "Sample Plot", caption |-> "This is a sample plot"])}

Totals(names, values) == [none |-> FALSE, index |-> names, values |-> values]

Intersections(names, index, values) == [none |-> FALSE, names |-> names, index |-> index, values |-> values]

DataFrame == [none |-> FALSE]

Args(df, intersections, totals, horizontal, sort_by, sort_categories_by, min_degree, max_degree, include_empty_subsets, include_data, meta_data) ==
    [df |-> df, intersections |-> intersections, totals |-> totals, horizontal |-> horizontal,
     sort_by |-> sort_by, sort_categories_by |-> sort_categories_by,
     min_degree |-> min_degree, max_degree |-> max_degree,
     include_empty_subsets |-> include_empty_subsets, include_data |-> include_data, meta_data |-> meta_data]

\* the table of the end-to-end scenario: cat1 = A, cat2 = B
SampleTotals == Totals(<<<<"A">>, <<"B">>>>, <<100, 80>>)

SampleIntersections == Intersections(<<<<"A">>, <<"B">>>>, <<<<TRUE, FALSE>>, <<TRUE, TRUE>>>>, <<60, 40>>)

\* df, intersections, totals: all given, all None, or one table None
TableTriples ==
    {<<DataFrame, SampleIntersections, SampleTotals>>,
     <<NoneTable, NoneTable, NoneTable>>,
     <<DataFrame, NoneTable, SampleTotals>>,
     <<DataFrame, SampleIntersections, NoneTable>>}

\* tables whose set names vary: every total is 1, row i has size i
NamedTables(names, index) ==
    <<Totals(names, [i \in 1..Len(names) |-> 1]), Intersections(names, index, [i \in 1..Len(index) |-> i])>>

\* tables whose totals and sizes vary, over plain set names
SizedTables(values, index, sizes) ==
    <<Totals(SubSeq(PlainNames, 1, Len(values)), values), Intersections(SubSeq(PlainNames, 1, Len(values)), index, sizes)>>

\* the one configuration under which the tables vary
DataArgs(tables, include_data) ==
    Args(DataFrame, tables[2], tables[1], FALSE, Some("-cardinality"), Some("-cardinality"), None, None, FALSE, include_data, None)

\* the grammars handed to fetch_alt_text: the empty document and built ones
FetchGrammars ==
    {<<>>} \cup
    {generate_grammar(Args(DataFrame, SampleIntersections, SampleTotals, FALSE, sb, scb, None, None, ie, idt, None)).value :
        sb \in SortByValues, scb \in SortCategoriesByValues, ie \in BOOLEAN, idt \in BOOLEAN}

----------------------------------------------------------------------------
(* The state machine: one call, from its arguments to its outcome.         *)

Pending == [kind |-> "pending"]

\* every configuration, over the sample tables and the None tables
InitGrammar ==
    /\ call = "generate_grammar"
    /\ \E t \in TableTriples, h \in BOOLEAN, sb \in SortByValues, scb \in SortCategoriesByValues,
          mn \in DegreeValues, mx \in DegreeValues, ie \in BOOLEAN, idt \in BOOLEAN, md \in MetaDataValues :
          args = Args(t[1], t[2], t[3], h, sb, scb, mn, mx, ie, idt, md)
    /\ ret = Pending
    /\ engine = <<>>

\* every table of up to MaxSets sets and MaxRows rows with unique membership
\* tuples, with and without the processed data
InitData ==
    /\ call = "generate_grammar"
    /\ \E k \in 1..MaxSets, r \in 0..MaxRows, idt \in BOOLEAN :
          \E index \in InjectiveSeqs([1..k -> BOOLEAN], r) :
              \/ \E names \in InjectiveSeqs(NamePool, k) :
                    args = DataArgs(NamedTables(names, index), idt)
              \/ \E values \in [1..k -> TotalValues], sizes \in [1..r -> SizeValues] :
                    args = DataArgs(SizedTables(values, index, sizes), idt)
    /\ ret = Pending
    /\ engine = <<>>

InitFetch == call = "fetch_alt_text" /\ args \in {[grammar |-> g] : g \in FetchGrammars} /\ ret = Pending /\ engine = <<>>

GenerateGrammar ==
    /\ call = "generate_grammar"
    /\ ret = Pending
    /\ ret' = generate_grammar(args)
    /\ UNCHANGED <<call, args, engine>>

FetchAltText ==
    /\ call = "fetch_alt_text"
    /\ ret = Pending
    /\ \E fails_at \in 0..Len(ConstructionSteps), text_raises \in BOOLEAN :
          /\ ~parser_accepts(args.grammar) => fails_at = 1
          /\ LET out == fetch_alt_text(args.grammar, fails_at, text_raises)
             IN  ret' = out.ret /\ engine' = out.engine
    /\ UNCHANGED <<call, args>>

SpecGrammar == InitGrammar /\ [][GenerateGrammar]_vars

SpecData == InitData /\ [][GenerateGrammar]_vars

SpecFetch == InitFetch /\ [][FetchAltText]_vars

Done == ret.kind # "pending"

Returned == ret.kind = "return"

----------------------------------------------------------------------------
(* Claims about the configuration mapping (SpecGrammar).                   *)

SortByTable ==
    [degree |-> <<"Degree", "Descending">>]
    @@ ("-degree" :> <<"Degree", "Ascending">>)
    @@ [cardinality |-> <<"Size", "Ascending">>]
    @@ ("-cardinality" :> <<"Size", "Descending">>)
    @@ [input |-> <<"Size", "Descending">>]
    @@ ("-input" :> <<"Size", "Descending">>)

SortCategoriesByTable ==
    [cardinality |-> "Descending"]
    @@ ("-cardinality" :> "Ascending")
    @@ [input |-> "Alphabetical"]
    @@ ("-input" :> "Alphabetical")

Recognized(key, table) == key # None /\ key[1] \in DOMAIN table

HasSortOrder(g, by, order) == g.sortBy = by /\ "sortByOrder" \in DOMAIN g /\ g.sortByOrder = order

\* C1: for every call that returns a grammar, a sort_by among the six known
\* values gives the sortBy and sortByOrder of the table, and a
\* sort_categories_by among the four known values gives the sortVisibleBy of
\* the table, whatever the other arguments are.
C1_SortMapping ==
    Returned =>
        /\ Recognized(args.sort_by, SortByTable) =>
              HasSortOrder(ret.value, SortByTable[args.sort_by[1]][1], SortByTable[args.sort_by[1]][2])
        /\ Recognized(args.sort_categories_by, SortCategoriesByTable) =>
              ret.value.sortVisibleBy = SortCategoriesByTable[args.sort_categories_by[1]]

C1_Witness ==
    /\ Returned
    /\ args.sort_by = Some("cardinality")
    /\ args.sort_categories_by = Some("-cardinality")
    /\ args.include_data
    /\ args.min_degree = Some(1)
    /\ HasSortOrder(ret.value, "Size", "Ascending")
    /\ ret.value.sortVisibleBy = "Ascending"

\* C2: a call with valid tables and a sort_by outside the six known values
\* (None included) returns a grammar with sortBy "Size" and sortByOrder
\* "Descending", and an unknown sort_categories_by leaves sortVisibleBy
\* "Alphabetical".
C2_UnknownSortKeyKeepsDefaults ==
    (Done /\ ~args.totals.none /\ ~args.intersections.none) =>
        /\ Returned
        /\ ~Recognized(args.sort_by, SortByTable) => HasSortOrder(ret.value, "Size", "Descending")
        /\ ~Recognized(args.sort_categories_by, SortCategoriesByTable) => ret.value.sortVisibleBy = "Alphabetical"

\* C3: hideEmpty is the negation of include_empty_subsets, and hideNoSet is
\* true exactly when min_degree is given and above 0.
C3_HideFilters ==
    Returned =>
        /\ ret.value.filters.hideEmpty = ~args.include_empty_subsets
        /\ ret.value.filters.hideNoSet = (args.min_degree # None /\ args.min_degree[1] > 0)

C3_Witness ==
    /\ Returned
    /\ args.min_degree = Some(0)
    /\ args.include_empty_subsets
    /\ ~ret.value.filters.hideNoSet
    /\ ~ret.value.filters.hideEmpty

\* Python's (x or default) on an optional integer
OrDefault(x, default) == IF x = None \/ x = Some(0) THEN default ELSE x[1]

\* C4 as stated: minVisible = (min_degree or 0) and maxVisible =
\* (max_degree or 6), so that max_degree = 0 gives maxVisible = 6.
C4_OrDefaults ==
    Returned =>
        /\ ret.value.filters.minVisible = OrDefault(args.min_degree, 0)
        /\ ret.value.filters.maxVisible = OrDefault(args.max_degree, 6)

\* C4 as amended: a degree bound that is None yields the default (0 for
\* minVisible, 6 for maxVisible), and any given bound, 0 included, is copied
\* unchanged; max_degree = 0 gives maxVisible = 0.
C4_NoneDefaults ==
    Returned =>
        /\ ret.value.filters.minVisible = (IF args.min_degree = None THEN 0 ELSE args.min_degree[1])
        /\ ret.value.filters.maxVisible = (IF args.max_degree = None THEN 6 ELSE args.max_degree[1])

C4_Witness ==
    /\ Returned
    /\ args.max_degree = Some(0)
    /\ args.min_degree = None
    /\ ret.value.filters.maxVisible = 0
    /\ ret.value.filters.minVisible = 0

\* C8 as stated: whatever the configuration, a call with None for the totals
\* table or for the intersections table raises AttributeError.
C8_NoneTableRaisesAttributeError ==
    (Done /\ (args.totals.none \/ args.intersections.none)) =>
        ret.kind = "raise" /\ ret.exc = "AttributeError"

\* C8 as amended: whatever the configuration, a call with None for the
\* totals table raises AttributeError and returns no grammar; with a valid
\* totals table and None for the intersections table the call returns a
\* grammar when include_data is false and raises TypeError when it is true.
C8_NoneTotalsRaisesAttributeError ==
    Done =>
        /\ args.totals.none => (ret.kind = "raise" /\ ret.exc = "AttributeError")
        /\ (~args.totals.none /\ args.intersections.none /\ ~args.include_data) => Returned
        /\ (~args.totals.none /\ args.intersections.none /\ args.include_data) =>
              (ret.kind = "raise" /\ ret.exc = "TypeError")

C8_Witness ==
    /\ Done
    /\ args.totals.none
    /\ ~args.intersections.none
    /\ ~args.include_data
    /\ args.sort_by = Some("degree")
    /\ ret.kind = "raise"
    /\ ret.exc = "AttributeError"

----------------------------------------------------------------------------
(* Claims about the text fetcher (SpecFetch).                              *)

Outcome(step) == {e[2] : e \in {x \in Range(engine) : x[1] = step}}

ConstructionFailed == \E e \in Range(engine) : e[1] # "text" /\ e[2] = "raise"

ConstructionSucceeded == \A i \in 1..Len(ConstructionSteps) : Outcome(ConstructionSteps[i]) = {"ok"}

RaisedWith(prefix) == ret.kind = "raise" /\ ret.exc = "Exception" /\ ret.msg[1] = prefix

\* C7: one attempt, with two failure points: when a construction step
\* raises (as for the empty grammar), the call raises a generic failure
\* "Failed to create alt text generator ..." and the text is never asked for;
\* when construction succeeds and producing the text raises, the call raises
\* a generic failure "Failed to generate alt text ..."; a result is returned
\* only when construction and text production both succeeded.
C7_TwoWrappedFailurePoints ==
    Done =>
        /\ \A i, j \in 1..Len(engine) : i # j => engine[i][1] # engine[j][1]
        /\ ConstructionFailed => (RaisedWith("Failed to create alt text generator") /\ Outcome("text") = {})
        /\ ~parser_accepts(args.grammar) => ConstructionFailed
        /\ (ConstructionSucceeded /\ Outcome("text") = {"raise"}) => RaisedWith("Failed to generate alt text")
        /\ Returned <=> (ConstructionSucceeded /\ Outcome("text") = {"ok"})
        /\ Returned \/ ret.kind = "raise"

C7_Witness ==
    /\ Done
    /\ DOMAIN args.grammar = {}
    /\ RaisedWith("Failed to create alt text generator")
    /\ engine = <<<<"Parser", "raise">>>>

----------------------------------------------------------------------------
(* Claims about the processed data (SpecData).                             *)

WithData == Returned /\ args.include_data

NumRows == Len(args.intersections.index)

NumSets == Len(args.totals.index)

\* the names of the sets that row i of the input contains, in set order
RECURSIVE YesNamesFrom(_, _)
YesNamesFrom(i, j) ==
    IF j > Len(args.intersections.names) THEN <<>>
    ELSE (IF args.intersections.index[i][j] THEN <<args.intersections.names[j]>> ELSE <<>>) \o YesNamesFrom(i, j + 1)

YesNames(i) == YesNamesFrom(i, 1)

\* the names a record's setMembership marks "Yes", in set order
RECURSIVE MarkedFrom(_, _)
MarkedFrom(set_membership, j) ==
    IF j > Len(set_membership) THEN <<>>
    ELSE (IF set_membership[j][2] = "Yes" THEN <<set_membership[j][1]>> ELSE <<>>) \o MarkedFrom(set_membership, j + 1)

\* "A, B, and C": each name but the last followed by ", ", the last after "and "
RECURSIVE JoinWithAnd(_)
JoinWithAnd(names) ==
    IF Len(names) = 1 THEN Str_And \o names[1]
    ELSE names[1] \o Str_Comma \o JoinWithAnd(Tail(names))

ExpectedElementName(names) ==
    IF names = <<>> THEN Str_Unincluded
    ELSE IF Len(names) = 1 THEN Str_Just \o names[1]
    ELSE JoinWithAnd(names)

\* C5: the elementName of every record is "Unincluded" when the record
\* contains no set, "Just {name}" when it contains one, and otherwise its
\* set names in set order, each but the last followed by ", " and the last
\* after "and "; the names are those whose membership is "Yes".
C5_ElementNameFromMembership ==
    WithData =>
        \A e \in Range(ret.value.processedData.values) :
            e[2].elementName = ExpectedElementName(MarkedFrom(e[2].setMembership, 1))

\* the deviation of the formula: one factor per set, by position in totals
RECURSIVE ExpectedShare(_, _)
ExpectedShare(set_membership, j) ==
    IF j > NumSets THEN RatInt(1)
    ELSE LET share == Rat(args.totals.values[j], SeqSum(args.totals.values))
         IN  RatMul(IF DictGet(set_membership, args.totals.index[j]) = "Yes" THEN share ELSE RatSub(RatInt(1), share),
                    ExpectedShare(set_membership, j + 1))

ExactDeviation(set_membership, size) ==
    RatMul(RatInt(100), RatSub(Rat(size, SeqSum(args.totals.values)), ExpectedShare(set_membership, 1)))

\* C6: with T the sum of the totals, the deviation of every record is
\* 100 * (size/T - the product over the sets of size(s)/T for a contained set
\* and 1 - size(s)/T for any other), in exact arithmetic, in both derived
\* views; so a record whose share size/T equals that product has deviation 0.
C6_DeviationFormula ==
    WithData =>
        \A view \in {ret.value.processedData, ret.value.accessibleProcessedData} :
            \A e \in Range(view.values) :
                /\ e[2].deviation = ExactDeviation(e[2].setMembership, e[2].size)
                /\ Rat(e[2].size, SeqSum(args.totals.values)) = ExpectedShare(e[2].setMembership, 1) => e[2].deviation = RatInt(0)

\* totals {A: 50, B: 50}, the intersection of both of size 25: deviation 0
C6_Witness ==
    /\ WithData
    /\ args.totals.values = <<50, 50>>
    /\ \E i \in 1..NumRows :
          /\ args.intersections.index[i] = <<TRUE, TRUE>>
          /\ args.intersections.values[i] = 25
          /\ DictGet(ret.value.processedData.values, generate_intersection_id(args.intersections, i)).deviation = RatInt(0)
    /\ \E e \in Range(ret.value.processedData.values) : e[2].deviation # RatInt(0)

FullFields == {"id", "elementName", "setMembership", "size", "type", "degree", "attributes", "deviation", "items"}

Restrict(f, keys) == [k \in keys |-> f[k]]

\* C9: with include_data, processedData.order lists the identifiers of the
\* input rows in input order, one per row, and every full record has an empty
\* items field; accessibleProcessedData has an empty order and records
\* without items but with deviation; both views hold the same identifiers and
\* each accessible record equals the full one in every other field, with
\* type "Subset" and degree the number of "Yes" memberships.  Without
\* include_data the grammar has neither block.
C9_FullAndAccessibleViews ==
    Returned =>
        IF args.include_data
        THEN LET full == ret.value.processedData
                 acc == ret.value.accessibleProcessedData
             IN  /\ full.order = [i \in 1..NumRows |-> generate_intersection_id(args.intersections, i)]
                 /\ acc.order = <<>>
                 /\ DictKeys(acc.values) = DictKeys(full.values)
                 /\ \A e \in Range(full.values) :
                       /\ DOMAIN e[2] = FullFields
                       /\ e[2].items = <<>>
                       /\ e[2].id = e[1]
                       /\ e[2].type = "Subset"
                       /\ e[2].attributes = <<>>
                       /\ e[2].degree = Len(MarkedFrom(e[2].setMembership, 1))
                       /\ DictGet(acc.values, e[1]) = Restrict(e[2], FullFields \ {"items"})
        ELSE "processedData" \notin DOMAIN ret.value /\ "accessibleProcessedData" \notin DOMAIN ret.value

C9_Witness ==
    /\ WithData
    /\ NumRows = 2
    /\ Len(ret.value.processedData.order) = 2
    /\ ret.value.processedData.order[1] # ret.value.processedData.order[2]
    /\ ret.value.accessibleProcessedData.order = <<>>
    /\ Len(ret.value.accessibleProcessedData.values) = 2
    /\ \A e \in Range(ret.value.accessibleProcessedData.values) : "items" \notin DOMAIN e[2] /\ "deviation" \in DOMAIN e[2]

\* C10: the membership tuples of the input being unique, distinct rows get
\* distinct identifiers whatever the set names are: values holds one record
\* per input row, order has no duplicate, and the record under order[i] has
\* the size and the memberships of input row i.
C10_IdentifiersInjective ==
    WithData =>
        LET full == ret.value.processedData
        IN  /\ Len(full.values) = NumRows
            /\ \A i, j \in 1..Len(full.order) : i # j => full.order[i] # full.order[j]
            /\ \A i \in 1..NumRows :
                  /\ DictHas(full.values, full.order[i])
                  /\ DictGet(full.values, full.order[i]).size = args.intersections.values[i]
                  /\ MarkedFrom(DictGet(full.values, full.order[i]).setMembership, 1) = YesNames(i)

====
